---- MODULE Spec2Model ----
(***************************************************************************)
(* Expense tracker (src/app.py): the SQLite store with its four tables,    *)
(* the data functions that read and write it, and the Streamlit pages that *)
(* call them on behalf of browser sessions.                                *)
(*                                                                         *)
(* Every data function opens its own connection.  A connection's writes    *)
(* become visible to other connections at commit; the first write          *)
(* statement of a connection takes SQLite's write lock, which is held up   *)
(* to the commit or the rollback.  A function that issues one write        *)
(* statement and commits is one step here; delete_user, which issues three *)
(* and then commits, is one step per statement.  A function that reads and *)
(* then writes (register_user, add_category, set_budget, delete_category,  *)
(* the bootstrap insert of init_db) is a read step and a write step.       *)
(* A writer that finds the lock taken waits: its step is not enabled.      *)
(*                                                                         *)
(* Dates are stored as the texts strftime writes; a text is a sequence of  *)
(* character codes.  The reports and the dashboard are checked over        *)
(* ledgers built by direct calls of the data functions.                    *)
(***************************************************************************)
EXTENDS Integers, Sequences, FiniteSets, TLC

VARIABLES db, txn, sess, pc, loc, out

vars == <<db, txn, sess, pc, loc, out>>

----------------------------------------------------------------------------
(* Bounds of the model *)

NumSessions == 2
MaxNames == 1
MaxSalt == 1
MaxUserId == 2
MaxTxId == 2
MaxBudgetId == 2
MaxCatId == 15
MaxAmount == 1
MaxDate == 1
MaxImportRows == 1
MaxLedger == 2
MaxFileRows == 2
MaxCallDate == 3

Sessions == 1..NumSessions
UserIds == 1..MaxUserId

MaxId == [users |-> MaxUserId, transactions |-> MaxTxId, budgets |-> MaxBudgetId,
          categories |-> MaxCatId]

OtherNames == <<"bob", "carol", "dave", "erin">>
Usernames == {"admin"} \cup {OtherNames[i] : i \in 1..MaxNames}
Passwords == {"admin123", "pw"}
Salts == 1..MaxSalt
IsAdminValues == {0, 1}
TxTypes == {"expense", "income"}
TxAmounts == 1..MaxAmount
BudgetAmounts == 0..MaxAmount
\* the days a date_input widget is set to
Calendar ==
    <<[year |-> 2024, month |-> 1, day |-> 31], [year |-> 2024, month |-> 2, day |-> 1],
      [year |-> 2024, month |-> 2, day |-> 29], [year |-> 2024, month |-> 10, day |-> 9],
      [year |-> 2025, month |-> 1, day |-> 1]>>
Dates == {Calendar[i] : i \in 1..MaxDate}
CatNames == {"Food", "Pets"}

----------------------------------------------------------------------------
(* Credential store *)

hash_password(password, salt) == [pw |-> password, salt |-> salt]

verify_password(password, hashed) == hashed.pw = password

----------------------------------------------------------------------------
(* Dates: texts are sequences of character codes *)

Digit(n) == 48 + (n % 10)

\* date.strftime('%Y-%m-%d')
strftime(date) ==
    <<Digit(date.year \div 1000), Digit(date.year \div 100), Digit(date.year \div 10),
      Digit(date.year), 45, Digit(date.month \div 10), Digit(date.month), 45,
      Digit(date.day \div 10), Digit(date.day)>>

\* pd.to_datetime of a 'YYYY-MM-DD' text
to_datetime(text) ==
    [year |-> (text[1] - 48) * 1000 + (text[2] - 48) * 100 + (text[3] - 48) * 10
              + (text[4] - 48),
     month |-> (text[6] - 48) * 10 + (text[7] - 48),
     day |-> (text[9] - 48) * 10 + (text[10] - 48)]

\* dt.strftime('%Y-%m')
strftime_month(date) == SubSeq(strftime(date), 1, 7)

\* the order of two TEXT values in SQLite (BINARY collation) and of two Python strings:
\* the first differing character decides, a proper prefix comes first
RECURSIVE TextLeq(_, _)
TextLeq(a, b) ==
    IF a = <<>> THEN TRUE
    ELSE IF b = <<>> THEN FALSE
    ELSE IF Head(a) # Head(b) THEN Head(a) < Head(b)
    ELSE TextLeq(Tail(a), Tail(b))

----------------------------------------------------------------------------
(* The store: four tables and the AUTOINCREMENT high-water marks *)

EmptyDb ==
    [users |-> {}, transactions |-> {}, budgets |-> {}, categories |-> {},
     seq |-> [users |-> 0, transactions |-> 0, budgets |-> 0, categories |-> 0]]

default_categories ==
    << <<"Food", "expense", 1>>, <<"Transportation", "expense", 1>>,
       <<"Housing", "expense", 1>>, <<"Utilities", "expense", 1>>,
       <<"Entertainment", "expense", 1>>, <<"Healthcare", "expense", 1>>,
       <<"Shopping", "expense", 1>>, <<"Other", "expense", 1>>,
       <<"Salary", "income", 1>>, <<"Bonus", "income", 1>>,
       <<"Gift", "income", 1>>, <<"Investment", "income", 1>>,
       <<"Other", "income", 1>> >>

Max(a, b) == IF a >= b THEN a ELSE b

\* users.username is declared UNIQUE: an insert of a username already present fails
users_unique_unchecked(d, username) == TRUE

users_unique_ok(d, username) == \A u \in d.users : u.username # username

\* id INTEGER PRIMARY KEY: an explicit id already present fails
pk_ok(rows, id) == \A r \in rows : r.id # id

\* INSERT INTO users (username, password_hash, is_admin): the id is one past the high-water mark
insert_user(d, username, hashed, is_admin) ==
    LET id == d.seq.users + 1 IN
    [d EXCEPT !.users = @ \cup {[id |-> id, username |-> username,
                                 password_hash |-> hashed, is_admin |-> is_admin]},
              !.seq.users = id]

insert_transaction(d, user_id, type, amount, date) ==
    LET id == d.seq.transactions + 1 IN
    [d EXCEPT !.transactions = @ \cup {[id |-> id, user_id |-> user_id, type |-> type,
                                        amount |-> amount, date |-> date]},
              !.seq.transactions = id]

insert_budget(d, user_id, amount) ==
    LET id == d.seq.budgets + 1 IN
    [d EXCEPT !.budgets = @ \cup {[id |-> id, user_id |-> user_id, amount |-> amount]},
              !.seq.budgets = id]

insert_category(d, name, type, is_default) ==
    LET id == d.seq.categories + 1 IN
    [d EXCEPT !.categories = @ \cup {[id |-> id, name |-> name, type |-> type,
                                      is_default |-> is_default]},
              !.seq.categories = id]

RECURSIVE insert_categories(_, _, _)
insert_categories(d, cats, i) ==
    IF i > Len(cats) THEN d
    ELSE insert_categories(insert_category(d, cats[i][1], cats[i][2], cats[i][3]), cats, i + 1)

admin_exists(d) == \E u \in d.users : u.username = "admin"

\* init_db, second half: seed the catalog when it holds no row
seed_categories_always(d) == insert_categories(d, default_categories, 1)

seed_categories(d) ==
    IF d.categories = {} THEN insert_categories(d, default_categories, 1) ELSE d

\* init_db, first half: insert the bootstrap account
insert_default_admin(d, salt) == insert_user(d, "admin", hash_password("admin123", salt), 1)

----------------------------------------------------------------------------
(* Sessions *)

LoggedOut ==
    [logged_in |-> FALSE, user_id |-> 0, username |-> "", is_admin |-> 0,
     delete_confirmation |-> 0]

NoLoc == [op |-> "none"]
NoOut == [session |-> 0, message |-> ""]
NoTxn == [owner |-> 0]

Init ==
    /\ db = EmptyDb
    /\ txn = NoTxn
    /\ sess = [s \in Sessions |-> LoggedOut]
    /\ pc = [s \in Sessions |-> "idle"]
    /\ loc = [s \in Sessions |-> NoLoc]
    /\ out = NoOut

\* the end of a script run of session s and what it showed.  The next run of the
\* session starts with init_db(), which changes nothing while the bootstrap account
\* exists; when it does not, Main is that start.
Finish(s, message) ==
    /\ pc' = [pc EXCEPT ![s] = "page"]
    /\ loc' = [loc EXCEPT ![s] = NoLoc]
    /\ out' = [session |-> s, message |-> message]

\* st.rerun(): main() is run again from its first line
Rerun(s, message) ==
    /\ pc' = [pc EXCEPT ![s] = "idle"]
    /\ loc' = [loc EXCEPT ![s] = NoLoc]
    /\ out' = [session |-> s, message |-> message]

\* a step that shows nothing
Silent == out' = NoOut

\* main() begins a script run with init_db(): the bootstrap account is looked up
Main(s) ==
    /\ pc[s] \in {"idle", "page"}
    /\ Silent
    /\ UNCHANGED <<txn, sess, loc>>
    /\ IF admin_exists(db)
       THEN /\ (db.categories = {} => txn = NoTxn)
            /\ db' = seed_categories(db)
            /\ pc' = [pc EXCEPT ![s] = "page"]
       ELSE /\ pc' = [pc EXCEPT ![s] = "init_admin"]
            /\ UNCHANGED db

\* init_db(): the bootstrap account was not found, so it is inserted; the seeding
\* and the commit follow in the same transaction
InitAdmin(s) ==
    /\ pc[s] = "init_admin"
    /\ txn = NoTxn
    /\ UNCHANGED <<txn, sess>>
    /\ IF users_unique_ok(db, "admin")
       THEN /\ db.seq.users < MaxUserId
            /\ \E salt \in Salts : db' = seed_categories(insert_default_admin(db, salt))
            /\ pc' = [pc EXCEPT ![s] = "page"]
            /\ Silent
            /\ UNCHANGED loc
       ELSE /\ pc' = [pc EXCEPT ![s] = "idle"]
            /\ loc' = [loc EXCEPT ![s] = NoLoc]
            /\ out' = [session |-> s, message |-> "init_db: IntegrityError"]
            /\ UNCHANGED db

----------------------------------------------------------------------------
(* Data functions: reads *)

\* register_user's SELECT id FROM users WHERE username = ?
username_exists_skipped(d, username) == FALSE

username_exists(d, username) == \E u \in d.users : u.username = username

\* login_user: a pair when the username is unknown, a triple otherwise
login_user(d, username, password) ==
    IF ~username_exists(d, username)
    THEN <<FALSE, "Username not found!">>
    ELSE LET u == CHOOSE x \in d.users : x.username = username IN
         IF verify_password(password, u.password_hash)
         THEN <<TRUE, u.id, u.is_admin>>
         ELSE <<FALSE, "Incorrect password!", 0>>

is_user_admin(d, user_id) ==
    IF \E u \in d.users : u.id = user_id
    THEN (CHOOSE u \in d.users : u.id = user_id).is_admin # 0
    ELSE FALSE

\* get_user_transactions: the rows of one user
get_user_transactions(d, user_id) == {t \in d.transactions : t.user_id = user_id}

budget_rows(d, user_id) == {b \in d.budgets : b.user_id = user_id}

\* get_budget: fetchone() of the user's budget rows, None (0 rows) as <<>>
get_budget(d, user_id) ==
    LET rows == budget_rows(d, user_id) IN
    IF rows = {} THEN <<>>
    ELSE <<(CHOOSE b \in rows : \A c \in rows : b.id <= c.id).amount>>

\* the SELECT password_hash FROM users WHERE id = ? of the settings forms
stored_hash(d, user_id) == {u.password_hash : u \in {x \in d.users : x.id = user_id}}

RECURSIVE SumAmounts(_)
SumAmounts(rows) ==
    IF rows = {} THEN 0
    ELSE LET r == CHOOSE x \in rows : TRUE IN r.amount + SumAmounts(rows \ {r})

\* get_all_users: users LEFT JOIN transactions LEFT JOIN budgets GROUP BY u.id.  A user
\* with n budget rows has each of its transactions in n joined rows; budget is a bare
\* column of the group, so it is the amount of one of the user's budget rows.
user_summary(d, u) ==
    LET T == get_user_transactions(d, u.id)
        B == budget_rows(d, u.id)
        n == IF B = {} THEN 1 ELSE Cardinality(B)
    IN  [id |-> u.id, username |-> u.username, is_admin |-> u.is_admin,
         transaction_count |-> Cardinality(T) * n,
         total_expenses |-> SumAmounts({t \in T : t.type = "expense"}) * n,
         total_income |-> SumAmounts({t \in T : t.type = "income"}) * n,
         budget |-> IF B = {} THEN {0} ELSE {b.amount : b \in B}]

get_all_users(d) == {user_summary(d, u) : u \in d.users}

\* get_transactions(all_users=True): transactions JOIN users, each with its owner's name
get_all_transactions(d) ==
    {<<p[1], p[2].username>> :
        p \in {q \in d.transactions \X d.users : q[2].id = q[1].user_id}}

\* the orderings of a set of rows
Orderings(rows) ==
    {f \in [1..Cardinality(rows) -> rows] : \A i, j \in DOMAIN f : i # j => f[i] # f[j]}

\* datetime order
DateLeq(a, b) ==
    \/ a.year < b.year
    \/ a.year = b.year /\ a.month < b.month
    \/ a.year = b.year /\ a.month = b.month /\ a.day <= b.day

\* df.sort_values(by='date', ascending=False) on the converted dates: the order of rows
\* of one date is not determined
sort_values(rows) ==
    {f \in Orderings(rows) :
        \A i, j \in DOMAIN f :
            i < j => DateLeq(to_datetime(f[j].date), to_datetime(f[i].date))}

\* SQL's "date BETWEEN ? AND ?" on TEXT values
between_exclusive_end(text, low, high) == TextLeq(low, text) /\ TextLeq(text, high) /\ text # high

between(text, low, high) == TextLeq(low, text) /\ TextLeq(text, high)

\* get_transactions(user_id, start_date, end_date, all_users): None and '' are <<>>; the
\* possible results, each an ordered sequence of rows
get_transactions(d, user_id, start_date, end_date, all_users) ==
    LET selected ==
            IF all_users
            THEN {t @@ [username |-> u.username] :
                    <<t, u>> \in {q \in d.transactions \X d.users : q[1].user_id = q[2].id}}
            ELSE {t \in d.transactions : t.user_id = user_id}
        ranged ==
            IF start_date # <<>> /\ end_date # <<>>
            THEN {t \in selected : between(t.date, start_date, end_date)}
            ELSE selected
    IN  sort_values(ranged)

\* the rows of a result
Rows(df) == {df[i] : i \in DOMAIN df}

\* the summary cards of the dashboard page and of the reports page
summarize_untyped(df) ==
    [total_income |-> SumAmounts(Rows(df)), total_expenses |-> SumAmounts(Rows(df)),
     balance |-> 0]

summarize(df) ==
    LET total_income == SumAmounts({t \in Rows(df) : t.type = "income"})
        total_expenses == SumAmounts({t \in Rows(df) : t.type = "expense"})
    IN  [total_income |-> total_income, total_expenses |-> total_expenses,
         balance |-> total_income - total_expenses]

\* the budget line of the dashboard page: budget is what get_budget returned
budget_status(budget, total_expenses) ==
    LET set == budget # <<>> /\ budget[1] # 0 IN
    IF set /\ total_expenses > budget[1]
    THEN [kind |-> "exceeded", amount |-> total_expenses - budget[1]]
    ELSE IF set
    THEN [kind |-> "remaining", amount |-> budget[1] - total_expenses]
    ELSE [kind |-> "none", amount |-> 0]

\* the month column of the reports page
month_of_date(text) == text

month_of(text) == strftime_month(to_datetime(text))

\* groupby(['month', 'type'])['amount'].sum(): one row per (month, type) that occurs
monthly_data(df) ==
    {[month |-> month_of(t.date), type |-> t.type,
      amount |-> SumAmounts({x \in Rows(df) : /\ month_of(x.date) = month_of(t.date)
                                               /\ x.type = t.type})]
        : t \in Rows(df)}

\* pivot(index='month', columns='type'), fillna(0) and the two columns made sure of: one
\* entry per month in ascending order of the month texts, a missing cell as 0
pivot_data(df) ==
    LET data == monthly_data(df)
        months == {r.month : r \in data}
        cell(m, type) ==
            IF \E r \in data : r.month = m /\ r.type = type
            THEN (CHOOSE r \in data : r.month = m /\ r.type = type).amount
            ELSE 0
        index == CHOOSE f \in Orderings(months) :
                    \A i, j \in DOMAIN f : i < j => TextLeq(f[i], f[j])
    IN  [i \in DOMAIN index |->
            [month |-> index[i], income |-> cell(index[i], "income"),
             expense |-> cell(index[i], "expense")]]

\* get_categories(): id, name, type of every category
get_categories(d) == {[id |-> c.id, name |-> c.name, type |-> c.type] : c \in d.categories}

\* add_category's SELECT id FROM categories WHERE name = ? AND type = ?
category_exists(d, name, type) == \E c \in d.categories : c.name = name /\ c.type = type

\* delete_category's SELECT is_default FROM categories WHERE id = ?
category_is_default_ignored(d, category_id) == FALSE

category_is_default(d, category_id) ==
    \E c \in d.categories : c.id = category_id /\ c.is_default = 1

----------------------------------------------------------------------------
(* Data functions: writes *)

add_transaction(d, user_id, type, amount, date) ==
    insert_transaction(d, user_id, type, amount, date)

delete_transaction(d, transaction_id) ==
    [d EXCEPT !.transactions = {t \in @ : t.id # transaction_id}]

\* set_budget's two branches
update_budget_accumulate(d, user_id, amount) ==
    [d EXCEPT !.budgets = {IF b.user_id = user_id THEN [b EXCEPT !.amount = @ + amount] ELSE b
                           : b \in @}]

update_budget(d, user_id, amount) ==
    [d EXCEPT !.budgets = {IF b.user_id = user_id THEN [b EXCEPT !.amount = amount] ELSE b
                           : b \in @}]

toggle_admin_status(d, user_id, is_admin) ==
    [d EXCEPT !.users = {IF u.id = user_id
                         THEN [u EXCEPT !.is_admin = IF is_admin THEN 1 ELSE 0]
                         ELSE u : u \in @}]

update_password(d, user_id, hashed) ==
    [d EXCEPT !.users = {IF u.id = user_id THEN [u EXCEPT !.password_hash = hashed] ELSE u
                         : u \in @}]

\* delete_user's three statements
delete_user_transactions_by_id(d, user_id) ==
    [d EXCEPT !.transactions = {t \in @ : t.id # user_id}]

delete_user_transactions(d, user_id) ==
    [d EXCEPT !.transactions = {t \in @ : t.user_id # user_id}]

delete_user_budgets(d, user_id) ==
    [d EXCEPT !.budgets = {b \in @ : b.user_id # user_id}]

delete_user_row(d, user_id) ==
    [d EXCEPT !.users = {u \in @ : u.id # user_id}]

delete_category(d, category_id) ==
    [d EXCEPT !.categories = {c \in @ : c.id # category_id}]

\* df.to_sql(table, conn, if_exists='append'): the rows are inserted in order in one
\* transaction; a row with no id gets the next one; a row that breaks the primary key
\* or users.username UNIQUE raises, and the transaction is rolled back
RECURSIVE import_rows(_, _, _, _)
import_rows(d, table, rows, i) ==
    IF i > Len(rows) THEN [ok |-> TRUE, db |-> d]
    ELSE LET id == IF rows[i].id = 0 THEN d.seq[table] + 1 ELSE rows[i].id IN
         IF /\ pk_ok(d[table], id)
            /\ (table = "users" => users_unique_ok(d, rows[i].username))
         THEN import_rows([d EXCEPT ![table] = @ \cup {[rows[i] EXCEPT !.id = id]},
                                    !.seq[table] = Max(@, id)],
                          table, rows, i + 1)
         ELSE [ok |-> FALSE, db |-> d]

import_data_from_csv_partial(d, table, rows) == import_rows(d, table, rows, 1)

import_data_from_csv(d, table, rows) ==
    LET r == import_rows(d, table, rows, 1) IN
    IF r.ok THEN [ok |-> TRUE, db |-> r.db] ELSE [ok |-> FALSE, db |-> d]

----------------------------------------------------------------------------
(* Login page *)

TextInputs(S) == S \cup {""}

\* the login form
Login(s, username, password) ==
    /\ pc[s] = "page"
    /\ ~sess[s].logged_in
    /\ UNCHANGED <<db, txn>>
    /\ IF username = "" \/ password = ""
       THEN /\ Finish(s, "Please enter both username and password!")
            /\ UNCHANGED sess
       ELSE LET r == login_user(db, username, password) IN
            IF Len(r) # 3
            THEN \* success, result, is_admin = ... cannot unpack a pair
                 /\ Finish(s, "show_login_page: ValueError")
                 /\ UNCHANGED sess
            ELSE IF r[1]
                 THEN /\ sess' = [sess EXCEPT ![s] =
                              [logged_in |-> TRUE, user_id |-> r[2], username |-> username,
                               is_admin |-> r[3],
                               delete_confirmation |-> sess[s].delete_confirmation]]
                      /\ Finish(s, "")
                 ELSE /\ Finish(s, r[2])
                      /\ UNCHANGED sess

\* register_user up to its existence check, from the sign-up form
SignUp(s, username, password, confirm) ==
    /\ pc[s] = "page"
    /\ ~sess[s].logged_in
    /\ UNCHANGED <<db, txn, sess>>
    /\ IF username = "" \/ password = "" \/ confirm = ""
       THEN Finish(s, "Please fill in all fields!")
       ELSE IF password # confirm
       THEN Finish(s, "Passwords do not match!")
       ELSE IF username_exists(db, username)
       THEN Finish(s, "Username already exists!")
       ELSE /\ pc' = [pc EXCEPT ![s] = "register_insert"]
            /\ loc' = [loc EXCEPT ![s] = [op |-> "register_user", username |-> username,
                                          password |-> password, is_admin |-> 0,
                                          form |-> "signup"]]
            /\ Silent

\* register_user from its INSERT to its commit
RegisterInsert(s) ==
    /\ pc[s] = "register_insert"
    /\ txn = NoTxn
    /\ UNCHANGED <<txn, sess>>
    /\ IF users_unique_ok(db, loc[s].username)
       THEN /\ db.seq.users < MaxUserId
            /\ \E salt \in Salts :
                 db' = insert_user(db, loc[s].username,
                                   hash_password(loc[s].password, salt), loc[s].is_admin)
            /\ Finish(s, IF loc[s].form = "signup" THEN "Registration successful!"
                         ELSE "User added successfully!")
       ELSE /\ Finish(s, "register_user: IntegrityError")
            /\ UNCHANGED db

\* the sidebar's logout button
Logout(s) ==
    /\ pc[s] = "page"
    /\ sess[s].logged_in
    /\ sess' = [sess EXCEPT ![s] = LoggedOut]
    /\ Finish(s, "")
    /\ UNCHANGED <<db, txn>>

----------------------------------------------------------------------------
(* Dashboard, transactions and settings pages *)

\* the add-transaction form of the dashboard page
AddTransaction(s, type, amount, date) ==
    /\ pc[s] = "page"
    /\ sess[s].logged_in
    /\ UNCHANGED <<txn, sess>>
    /\ IF amount <= 0
       THEN /\ Finish(s, "Amount must be greater than zero!")
            /\ UNCHANGED db
       ELSE /\ txn = NoTxn
            /\ db.seq.transactions < MaxTxId
            /\ db' = add_transaction(db, sess[s].user_id, type, amount, strftime(date))
            /\ Finish(s, "Transaction added successfully!")

\* the add-transaction form of the transactions page: the amount comes from a
\* number_input with min_value=0.01 and is not checked again
NewTransaction(s, type, amount, date) ==
    /\ pc[s] = "page"
    /\ sess[s].logged_in
    /\ txn = NoTxn
    /\ db.seq.transactions < MaxTxId
    /\ db' = add_transaction(db, sess[s].user_id, type, amount, strftime(date))
    /\ Finish(s, "Transaction added successfully!")
    /\ UNCHANGED <<txn, sess>>

\* the delete expander of the transactions page
DeleteTransaction(s, transaction_id) ==
    /\ pc[s] = "page"
    /\ sess[s].logged_in
    /\ transaction_id \in {t.id : t \in get_user_transactions(db, sess[s].user_id)}
    /\ txn = NoTxn
    /\ db' = delete_transaction(db, transaction_id)
    /\ Finish(s, "Transaction deleted successfully!")
    /\ UNCHANGED <<txn, sess>>

\* the budget form: set_budget up to its existence check
SaveBudget(s, amount) ==
    /\ pc[s] = "page"
    /\ sess[s].logged_in
    /\ pc' = [pc EXCEPT ![s] = "budget_write"]
    /\ loc' = [loc EXCEPT ![s] = [op |-> "set_budget", user_id |-> sess[s].user_id,
                                  amount |-> amount,
                                  exists |-> budget_rows(db, sess[s].user_id) # {}]]
    /\ Silent
    /\ UNCHANGED <<db, txn, sess>>

\* set_budget from its UPDATE or INSERT to its commit
BudgetWrite(s) ==
    /\ pc[s] = "budget_write"
    /\ txn = NoTxn
    /\ IF loc[s].exists
       THEN db' = update_budget(db, loc[s].user_id, loc[s].amount)
       ELSE /\ db.seq.budgets < MaxBudgetId
            /\ db' = insert_budget(db, loc[s].user_id, loc[s].amount)
    /\ Finish(s, "Budget updated successfully!")
    /\ UNCHANGED <<txn, sess>>

\* the change-password form
ChangePassword(s, current, new, confirm) ==
    /\ pc[s] = "page"
    /\ sess[s].logged_in
    /\ UNCHANGED <<txn, sess>>
    /\ IF current = "" \/ new = "" \/ confirm = ""
       THEN /\ Finish(s, "Please fill in all fields!")
            /\ UNCHANGED db
       ELSE IF new # confirm
       THEN /\ Finish(s, "New passwords do not match!")
            /\ UNCHANGED db
       ELSE IF stored_hash(db, sess[s].user_id) = {}
       THEN \* c.fetchone()[0] on no row
            /\ Finish(s, "show_settings_page: TypeError")
            /\ UNCHANGED db
       ELSE IF \E h \in stored_hash(db, sess[s].user_id) : verify_password(current, h)
       THEN /\ txn = NoTxn
            /\ \E salt \in Salts :
                 db' = update_password(db, sess[s].user_id, hash_password(new, salt))
            /\ Finish(s, "Password changed successfully!")
       ELSE /\ Finish(s, "Current password is incorrect!")
            /\ UNCHANGED db

\* the delete-account form, up to its call of delete_user
DeleteAccount(s, confirm_text, password) ==
    /\ pc[s] = "page"
    /\ sess[s].logged_in
    /\ UNCHANGED <<db, txn, sess>>
    /\ IF confirm_text # "DELETE"
       THEN Finish(s, "Please type 'DELETE' to confirm!")
       ELSE IF password = ""
       THEN Finish(s, "Please enter your password!")
       ELSE IF stored_hash(db, sess[s].user_id) = {}
       THEN Finish(s, "show_settings_page: TypeError")
       ELSE IF \E h \in stored_hash(db, sess[s].user_id) : verify_password(password, h)
       THEN /\ pc' = [pc EXCEPT ![s] = "delete_transactions"]
            /\ loc' = [loc EXCEPT ![s] = [op |-> "delete_user",
                                          user_id |-> sess[s].user_id,
                                          form |-> "settings"]]
            /\ Silent
       ELSE Finish(s, "Incorrect password!")

----------------------------------------------------------------------------
(* delete_user: three DELETE statements in one transaction, then the commit *)

\* what other connections read while a connection has uncommitted statements: the
\* committed rows (the statements run inside the connection's implicit transaction)
isolation_autocommit(d, pending) == pending

isolation(d, pending) == d

\* DELETE FROM transactions WHERE user_id = ?: the connection takes the write lock
DeleteUserTransactions(s) ==
    /\ pc[s] = "delete_transactions"
    /\ txn = NoTxn
    /\ LET pending == delete_user_transactions(db, loc[s].user_id) IN
       /\ txn' = [owner |-> s, db |-> pending]
       /\ db' = isolation(db, pending)
    /\ pc' = [pc EXCEPT ![s] = "delete_budgets"]
    /\ Silent
    /\ UNCHANGED <<sess, loc>>

\* DELETE FROM budgets WHERE user_id = ?
DeleteUserBudgets(s) ==
    /\ pc[s] = "delete_budgets"
    /\ LET pending == delete_user_budgets(txn.db, loc[s].user_id) IN
       /\ txn' = [txn EXCEPT !.db = pending]
       /\ db' = isolation(db, pending)
    /\ pc' = [pc EXCEPT ![s] = "delete_users"]
    /\ Silent
    /\ UNCHANGED <<sess, loc>>

\* DELETE FROM users WHERE id = ?
DeleteUserRow(s) ==
    /\ pc[s] = "delete_users"
    /\ LET pending == delete_user_row(txn.db, loc[s].user_id) IN
       /\ txn' = [txn EXCEPT !.db = pending]
       /\ db' = isolation(db, pending)
    /\ pc' = [pc EXCEPT ![s] = "delete_commit"]
    /\ Silent
    /\ UNCHANGED <<sess, loc>>

\* conn.commit(), and what the calling form does with delete_user's True
DeleteUserCommit(s) ==
    /\ pc[s] = "delete_commit"
    /\ db' = txn.db
    /\ txn' = NoTxn
    /\ IF loc[s].form = "settings"
       THEN /\ sess' = [sess EXCEPT ![s] = LoggedOut]
            /\ Rerun(s, "Your account has been deleted.")
       ELSE /\ Rerun(s, "User deleted successfully!")
            /\ UNCHANGED sess

\* the connection fails with its transaction open: nothing was committed, and the
\* transaction is rolled back when the connection goes away
DeleteUserFail(s) ==
    /\ pc[s] \in {"delete_budgets", "delete_users", "delete_commit"}
    /\ txn' = NoTxn
    /\ Rerun(s, "delete_user: Error")
    /\ UNCHANGED <<db, sess>>

----------------------------------------------------------------------------
(* Admin panel: rendered when the session's is_admin is set *)

AdminPanel(s) == pc[s] = "page" /\ sess[s].logged_in /\ sess[s].is_admin # 0

\* the Admin checkbox of a user row
AdminToggle(s, row) ==
    /\ AdminPanel(s)
    /\ row \in get_all_users(db)
    /\ row.username # "admin"
    /\ txn = NoTxn
    /\ db' = toggle_admin_status(db, row.id, row.is_admin = 0)
    /\ Finish(s, "Updated admin status")
    /\ UNCHANGED <<txn, sess>>

\* the Delete button of a user row: the first click asks, the second deletes
AdminDelete(s, row) ==
    /\ AdminPanel(s)
    /\ row \in get_all_users(db)
    /\ row.username # "admin"
    /\ UNCHANGED <<db, txn>>
    /\ IF sess[s].delete_confirmation = row.id
       THEN /\ pc' = [pc EXCEPT ![s] = "delete_transactions"]
            /\ loc' = [loc EXCEPT ![s] = [op |-> "delete_user", user_id |-> row.id,
                                          form |-> "admin"]]
            /\ Silent
            /\ UNCHANGED sess
       ELSE /\ sess' = [sess EXCEPT ![s].delete_confirmation = row.id]
            /\ Finish(s, "Click again to confirm deletion")

\* the add-user form: register_user up to its existence check
AdminAddUser(s, username, password, is_admin) ==
    /\ AdminPanel(s)
    /\ UNCHANGED <<db, txn, sess>>
    /\ IF username = "" \/ password = ""
       THEN Finish(s, "Please enter both username and password!")
       ELSE IF username_exists(db, username)
       THEN Finish(s, "Username already exists!")
       ELSE /\ pc' = [pc EXCEPT ![s] = "register_insert"]
            /\ loc' = [loc EXCEPT ![s] = [op |-> "register_user", username |-> username,
                                          password |-> password,
                                          is_admin |-> IF is_admin THEN 1 ELSE 0,
                                          form |-> "add_user"]]
            /\ Silent

\* the import button
ImportData(s, table, rows) ==
    /\ AdminPanel(s)
    /\ txn = NoTxn
    /\ LET r == import_data_from_csv(db, table, rows) IN
       /\ r.db.seq[table] <= MaxId[table]
       /\ db' = r.db
       /\ Finish(s, IF r.ok THEN "Successfully imported data" ELSE "Error importing data")
    /\ UNCHANGED <<txn, sess>>

\* the Generate Backup button: backup_database() reads the four tables one after the
\* other, each with a SELECT of its own; this is the read of users
GenerateBackup(s) ==
    /\ AdminPanel(s)
    /\ pc' = [pc EXCEPT ![s] = "backup_transactions"]
    /\ loc' = [loc EXCEPT ![s] = [op |-> "backup_database", users |-> db.users]]
    /\ Silent
    /\ UNCHANGED <<db, txn, sess>>

\* backup_database(): SELECT * FROM transactions
BackupTransactions(s) ==
    /\ pc[s] = "backup_transactions"
    /\ pc' = [pc EXCEPT ![s] = "backup_budgets"]
    /\ loc' = [loc EXCEPT ![s] = loc[s] @@ [transactions |-> db.transactions]]
    /\ Silent
    /\ UNCHANGED <<db, txn, sess>>

\* backup_database(): SELECT * FROM budgets
BackupBudgets(s) ==
    /\ pc[s] = "backup_budgets"
    /\ pc' = [pc EXCEPT ![s] = "backup_categories"]
    /\ loc' = [loc EXCEPT ![s] = loc[s] @@ [budgets |-> db.budgets]]
    /\ Silent
    /\ UNCHANGED <<db, txn, sess>>

\* backup_database(): SELECT * FROM categories, and the four files are returned
BackupCategories(s) ==
    /\ pc[s] = "backup_categories"
    /\ pc' = [pc EXCEPT ![s] = "page"]
    /\ loc' = [loc EXCEPT ![s] = NoLoc]
    /\ out' = [session |-> s, message |-> "backup_database",
               backup_files |-> [users |-> loc[s].users,
                                 transactions |-> loc[s].transactions,
                                 budgets |-> loc[s].budgets,
                                 categories |-> db.categories]]
    /\ UNCHANGED <<db, txn, sess>>

\* the add-category form: add_category up to its existence check
AddCategory(s, name, type) ==
    /\ AdminPanel(s)
    /\ UNCHANGED <<db, txn, sess>>
    /\ IF name = ""
       THEN Finish(s, "Please enter a category name!")
       ELSE IF category_exists(db, name, type)
       THEN Finish(s, "Category already exists!")
       ELSE /\ pc' = [pc EXCEPT ![s] = "category_insert"]
            /\ loc' = [loc EXCEPT ![s] = [op |-> "add_category", name |-> name,
                                          type |-> type]]
            /\ Silent

\* add_category from its INSERT to its commit
CategoryInsert(s) ==
    /\ pc[s] = "category_insert"
    /\ txn = NoTxn
    /\ db.seq.categories < MaxCatId
    /\ db' = insert_category(db, loc[s].name, loc[s].type, 0)
    /\ Finish(s, "Category added successfully!")
    /\ UNCHANGED <<txn, sess>>

\* the Delete button of a category row (shown for every row: the listing carries no
\* is_default column): delete_category up to its default check
DeleteCategory(s, row) ==
    /\ AdminPanel(s)
    /\ row \in get_categories(db)
    /\ UNCHANGED <<db, txn, sess>>
    /\ IF category_is_default(db, row.id)
       THEN Finish(s, "Cannot delete default categories!")
       ELSE /\ pc' = [pc EXCEPT ![s] = "category_delete"]
            /\ loc' = [loc EXCEPT ![s] = [op |-> "delete_category", category_id |-> row.id]]
            /\ Silent

\* delete_category from its DELETE to its commit
CategoryDelete(s) ==
    /\ pc[s] = "category_delete"
    /\ txn = NoTxn
    /\ db' = delete_category(db, loc[s].category_id)
    /\ Finish(s, "Category deleted successfully!")
    /\ UNCHANGED <<txn, sess>>

----------------------------------------------------------------------------
(* Inputs *)

RowSeqs(S) == UNION {[1..n -> S] : n \in 1..MaxImportRows}

UserRows ==
    [id : 0..MaxUserId, username : Usernames,
     password_hash : {hash_password("pw", 1)}, is_admin : IsAdminValues]

TransactionRows ==
    [id : 0..MaxTxId, user_id : 1..MaxUserId, type : TxTypes, amount : TxAmounts,
     date : {strftime(d) : d \in Dates}]

BudgetRows == [id : 0..MaxBudgetId, user_id : 1..MaxUserId, amount : BudgetAmounts]

CategoryRows ==
    [id : {0, 1} \cup (Len(default_categories) + 1)..MaxCatId, name : CatNames,
     type : TxTypes, is_default : IsAdminValues]

----------------------------------------------------------------------------
(* Specifications *)

DeleteUser(s) ==
    \/ DeleteUserTransactions(s)
    \/ DeleteUserBudgets(s)
    \/ DeleteUserRow(s)
    \/ DeleteUserCommit(s)
    \/ DeleteUserFail(s)

\* Two sessions on the ledger and the budgets, with the deletion of users
Next ==
    \E s \in Sessions :
        \/ Main(s)
        \/ InitAdmin(s)
        \/ \E u \in Usernames, p \in Passwords : Login(s, u, p)
        \/ \E u \in Usernames : SignUp(s, u, "pw", "pw")
        \/ RegisterInsert(s)
        \/ Logout(s)
        \/ AddTransaction(s, "expense", MaxAmount, Calendar[MaxDate])
        \/ SaveBudget(s, MaxAmount)
        \/ BudgetWrite(s)
        \/ \E p \in Passwords : DeleteAccount(s, "DELETE", p)
        \/ \E row \in get_all_users(db) : AdminDelete(s, row)
        \/ DeleteUser(s)

Spec == Init /\ [][Next]_vars

\* One session on the ledger and the budgets, with imports
NextLedger ==
    \E s \in {1} :
        \/ Main(s)
        \/ InitAdmin(s)
        \/ \E u \in Usernames, p \in Passwords : Login(s, u, p)
        \/ \E u \in Usernames : SignUp(s, u, "pw", "pw")
        \/ RegisterInsert(s)
        \/ Logout(s)
        \/ \E t \in TxTypes, a \in TxAmounts, d \in Dates : AddTransaction(s, t, a, d)
        \/ \E t \in TxTypes, a \in TxAmounts, d \in Dates : NewTransaction(s, t, a, d)
        \/ \E id \in 1..MaxTxId : DeleteTransaction(s, id)
        \/ \E a \in BudgetAmounts : SaveBudget(s, a)
        \/ BudgetWrite(s)
        \/ \E c \in {"DELETE", ""}, p \in TextInputs(Passwords) : DeleteAccount(s, c, p)
        \/ \E row \in get_all_users(db) : AdminDelete(s, row)
        \/ DeleteUser(s)
        \/ \E rows \in RowSeqs(TransactionRows) : ImportData(s, "transactions", rows)
        \/ \E rows \in RowSeqs(BudgetRows) : ImportData(s, "budgets", rows)

SpecLedger == Init /\ [][NextLedger]_vars

\* Two sessions on the user registry
NextRegistry ==
    \E s \in Sessions :
        \/ Main(s)
        \/ InitAdmin(s)
        \/ \E u \in Usernames, p \in Passwords : Login(s, u, p)
        \/ \E u \in Usernames : SignUp(s, u, "pw", "pw")
        \/ RegisterInsert(s)
        \/ Logout(s)
        \/ \E p \in Passwords : DeleteAccount(s, "DELETE", p)
        \/ \E row \in get_all_users(db) : AdminToggle(s, row)
        \/ \E row \in get_all_users(db) : AdminDelete(s, row)
        \/ \E u \in Usernames, a \in BOOLEAN : AdminAddUser(s, u, "pw", a)
        \/ DeleteUser(s)
        \/ \E rows \in RowSeqs(UserRows) : ImportData(s, "users", rows)

SpecRegistry == Init /\ [][NextRegistry]_vars

\* One session on the login page and the settings page
NextAuth ==
    \E s \in {1} :
        \/ Main(s)
        \/ InitAdmin(s)
        \/ \E u \in TextInputs(Usernames), p \in TextInputs(Passwords) : Login(s, u, p)
        \/ \E u \in TextInputs(Usernames), p \in Passwords, c \in TextInputs(Passwords) :
             SignUp(s, u, p, c)
        \/ RegisterInsert(s)
        \/ Logout(s)
        \/ \E c \in TextInputs(Passwords), n \in Passwords, k \in Passwords :
             ChangePassword(s, c, n, k)
        \/ \E c \in {"DELETE", ""}, p \in TextInputs(Passwords) : DeleteAccount(s, c, p)
        \/ \E row \in get_all_users(db) : AdminToggle(s, row)
        \/ \E row \in get_all_users(db) : AdminDelete(s, row)
        \/ \E u \in TextInputs(Usernames), p \in TextInputs(Passwords), a \in BOOLEAN :
             AdminAddUser(s, u, p, a)
        \/ DeleteUser(s)
        \/ \E rows \in RowSeqs(UserRows) : ImportData(s, "users", rows)

SpecAuth == Init /\ [][NextAuth]_vars

\* Two sessions on the category catalog
NextCatalog ==
    \E s \in Sessions :
        \/ Main(s)
        \/ InitAdmin(s)
        \/ \E u \in Usernames, p \in Passwords : Login(s, u, p)
        \/ Logout(s)
        \/ \E n \in TextInputs(CatNames), t \in TxTypes : AddCategory(s, n, t)
        \/ CategoryInsert(s)
        \/ \E row \in get_categories(db) : DeleteCategory(s, row)
        \/ CategoryDelete(s)
        \/ \E rows \in RowSeqs(CategoryRows) : ImportData(s, "categories", rows)

SpecCatalog == Init /\ [][NextCatalog]_vars

\* add_transaction called with any amount
CallAddTransaction(user_id, type, amount, date) ==
    /\ db.seq.users >= 1
    /\ txn = NoTxn
    /\ db.seq.transactions < MaxLedger
    /\ db' = add_transaction(db, user_id, type, amount, strftime(date))
    /\ out' = [session |-> 0, message |-> "add_transaction", result |-> TRUE]
    /\ UNCHANGED <<txn, sess, pc, loc>>

\* get_transactions called: one of its possible results
GetTransactions(user_id, start_date, end_date, all_users) ==
    /\ db.seq.users >= 1
    /\ \E df \in get_transactions(db, user_id, start_date, end_date, all_users) :
         out' = [session |-> 0, message |-> "get_transactions",
                 args |-> [user_id |-> user_id, start_date |-> start_date,
                           end_date |-> end_date, all_users |-> all_users],
                 result |-> df]
    /\ UNCHANGED <<db, txn, sess, pc, loc>>

\* show_reports_page(user_id) with the two date inputs: the summary cards and the
\* monthly trend, or the notice that nothing was found
ShowReportsPage(user_id, start_date, end_date) ==
    /\ db.seq.users >= 1
    /\ \E df \in get_transactions(db, user_id, strftime(start_date), strftime(end_date),
                                  FALSE) :
         out' = [session |-> 0,
                 message |-> IF df = <<>>
                             THEN "No transactions found for the selected date range."
                             ELSE "Reports & Analytics",
                 args |-> [user_id |-> user_id, start_date |-> start_date,
                           end_date |-> end_date],
                 transactions_df |-> df,
                 summary |-> summarize(df),
                 pivot_data |-> pivot_data(df)]
    /\ UNCHANGED <<db, txn, sess, pc, loc>>

\* set_budget called, with no other call in between
CallSetBudget(user_id, amount) ==
    /\ db.seq.users >= 1
    /\ txn = NoTxn
    /\ IF budget_rows(db, user_id) # {}
       THEN db' = update_budget(db, user_id, amount)
       ELSE /\ db.seq.budgets < MaxBudgetId
            /\ db' = insert_budget(db, user_id, amount)
    /\ out' = [session |-> 0, message |-> "set_budget", result |-> TRUE]
    /\ UNCHANGED <<txn, sess, pc, loc>>

\* the first day of today's month and the first day of the month after it
start_of_month(today) == [today EXCEPT !.day = 1]

end_of_month(today) ==
    IF today.month < 12
    THEN [year |-> today.year, month |-> today.month + 1, day |-> 1]
    ELSE [year |-> today.year + 1, month |-> 1, day |-> 1]

\* show_dashboard_page(user_id) rendered on the day today: the summary cards over the
\* transactions of the month and the budget line
ShowDashboardPage(user_id, today) ==
    /\ db.seq.users >= 1
    /\ \E df \in get_transactions(db, user_id, strftime(start_of_month(today)),
                                  strftime(end_of_month(today)), FALSE) :
         out' = [session |-> 0, message |-> "Dashboard",
                 args |-> [user_id |-> user_id, today |-> today],
                 transactions_df |-> df,
                 summary |-> summarize(df),
                 budget_status |-> budget_status(get_budget(db, user_id),
                                                 summarize(df).total_expenses)]
    /\ UNCHANGED <<db, txn, sess, pc, loc>>

CallDates == {Calendar[i] : i \in 1..MaxCallDate}
DateTexts == {strftime(d) : d \in CallDates}

\* The ledger's functions called directly, and the reports page
NextReports ==
    \/ Main(1)
    \/ InitAdmin(1)
    \/ \E u \in UserIds, t \in TxTypes, a \in 0..MaxAmount, d \in CallDates :
         CallAddTransaction(u, t, a, d)
    \/ \E u \in UserIds, b \in DateTexts \cup {<<>>}, e \in DateTexts \cup {<<>>},
         all \in BOOLEAN : GetTransactions(u, b, e, all)
    \/ \E u \in UserIds, b \in CallDates, e \in CallDates : ShowReportsPage(u, b, e)

SpecReports == Init /\ [][NextReports]_vars

\* the CSV files of the import page: one or more rows
Files(S) == UNION {[1..n -> S] : n \in 1..MaxFileRows}

FileUserRows ==
    [id : {0, MaxUserId}, username : Usernames, password_hash : {hash_password("pw", 1)},
     is_admin : {0}]

FileTransactionRows ==
    [id : {0, 1}, user_id : UserIds, type : {"expense"}, amount : {MaxAmount},
     date : {strftime(Calendar[MaxDate])}]

\* One session importing files of several rows
NextImport ==
    \E s \in {1} :
        \/ Main(s)
        \/ InitAdmin(s)
        \/ \E u \in Usernames, p \in Passwords : Login(s, u, p)
        \/ Logout(s)
        \/ \E rows \in Files(FileUserRows) : ImportData(s, "users", rows)
        \/ \E rows \in Files(FileTransactionRows) : ImportData(s, "transactions", rows)

SpecImport == Init /\ [][NextImport]_vars

\* Two sessions: one takes a backup while the other signs up and records
NextBackup ==
    \E s \in Sessions :
        \/ Main(s)
        \/ InitAdmin(s)
        \/ \E u \in Usernames, p \in Passwords : Login(s, u, p)
        \/ \E u \in Usernames : SignUp(s, u, "pw", "pw")
        \/ RegisterInsert(s)
        \/ Logout(s)
        \/ AddTransaction(s, "expense", MaxAmount, Calendar[MaxDate])
        \/ SaveBudget(s, MaxAmount)
        \/ BudgetWrite(s)
        \/ GenerateBackup(s)
        \/ BackupTransactions(s)
        \/ BackupBudgets(s)
        \/ BackupCategories(s)

SpecBackup == Init /\ [][NextBackup]_vars

\* The ledger's and the budget's functions called directly, and the dashboard page
NextDashboard ==
    \/ Main(1)
    \/ InitAdmin(1)
    \/ \E u \in UserIds, t \in TxTypes, a \in 0..MaxAmount, d \in CallDates :
         CallAddTransaction(u, t, a, d)
    \/ \E u \in UserIds, a \in BudgetAmounts : CallSetBudget(u, a)
    \/ \E u \in UserIds, d \in CallDates : ShowDashboardPage(u, d)

SpecDashboard == Init /\ [][NextDashboard]_vars

----------------------------------------------------------------------------
(* Properties *)

InDeleteUser(s) == pc[s] \in {"delete_budgets", "delete_users", "delete_commit"}

\* the user row, the transactions and the budgets of one user id
Owned(d, user_id) ==
    [users |-> {u \in d.users : u.id = user_id},
     transactions |-> get_user_transactions(d, user_id),
     budgets |-> budget_rows(d, user_id)]

NothingOwned == [users |-> {}, transactions |-> {}, budgets |-> {}]

\* C1: the commit of delete_user(u) removes exactly the user row u, the transactions
\* of u and the budgets of u; no listing returns any of them afterwards, the number
\* of transactions drops by the number u owned, and every other row, and every other
\* user's summary, is as before.
C1_DeleteUserCascades ==
    [][\A s \in Sessions :
         DeleteUserCommit(s) =>
           LET u == loc[s].user_id IN
           /\ db'.users = {x \in db.users : x.id # u}
           /\ db'.transactions = {t \in db.transactions : t.user_id # u}
           /\ db'.budgets = {b \in db.budgets : b.user_id # u}
           /\ db'.categories = db.categories
           /\ Cardinality(db'.transactions) =
                Cardinality(db.transactions) - Cardinality(get_user_transactions(db, u))
           /\ get_user_transactions(db', u) = {}
           /\ get_budget(db', u) = <<>>
           /\ \A r \in get_all_users(db') : r.id # u
           /\ \A r \in get_all_transactions(db') : r[1].user_id # u
           /\ \A v \in db.users : v.id # u => user_summary(db', v) = user_summary(db, v)
      ]_vars

\* C1 witness: delete_user has run its three statements for a user who owns a
\* transaction and a budget, while another user owns a transaction and a budget too
C1_Witness ==
    \E s \in Sessions :
        /\ pc[s] = "delete_commit"
        /\ Owned(db, loc[s].user_id).users # {}
        /\ Owned(db, loc[s].user_id).transactions # {}
        /\ Owned(db, loc[s].user_id).budgets # {}
        /\ Owned(txn.db, loc[s].user_id) = NothingOwned
        /\ \E v \in db.users :
             /\ v.id # loc[s].user_id
             /\ get_user_transactions(db, v.id) # {}
             /\ budget_rows(db, v.id) # {}

\* C2: while a delete_user(u) has statements that are not committed, every step of
\* any session leaves what the other connections read of u (row, transactions,
\* budgets) as it was, or removes all of it at once; a failure removes none of it.
C2_CascadeAtomic ==
    [][\A s \in Sessions :
         (InDeleteUser(s) \/ DeleteUserTransactions(s)) =>
           LET u == loc[s].user_id IN
           /\ \/ Owned(db', u) = Owned(db, u)
              \/ Owned(db', u) = NothingOwned
           /\ DeleteUserFail(s) => db' = db
      ]_vars

\* C2 witness: a delete_user is between its statements, the rows it has deleted are
\* still what another logged-in session reads
C2_Witness ==
    \E s \in Sessions, o \in Sessions :
        /\ o # s
        /\ sess[o].logged_in
        /\ pc[s] = "delete_users"
        /\ txn.owner = s
        /\ Owned(db, loc[s].user_id).transactions # {}
        /\ Owned(db, loc[s].user_id).budgets # {}
        /\ Owned(txn.db, loc[s].user_id).transactions = {}
        /\ Owned(txn.db, loc[s].user_id).budgets = {}

\* C7: every transaction's user_id is the id of an existing user
C7_TransactionsHaveOwner ==
    \A t \in db.transactions : \E u \in db.users : u.id = t.user_id

\* C3: no two user records have the same username
C3_UsernamesUnique ==
    \A u \in db.users, v \in db.users : u.username = v.username => u = v

\* C3 witness: two register_user calls for one username both passed the existence
\* check; one has inserted, and the insert of the other has been refused
C3_Witness ==
    /\ out.message = "register_user: IntegrityError"
    /\ \E u \in db.users : u.username # "admin"

\* C4: register_user with a username that a user row already has shows the
\* duplicate-username failure and leaves the store as it was
C4_DuplicateUsernameRefused ==
    [][\A s \in Sessions, u \in Usernames, p \in Passwords :
         (/\ \E x \in db.users : x.username = u
          /\ \/ SignUp(s, u, p, p)
             \/ \E a \in BOOLEAN : AdminAddUser(s, u, p, a))
         => /\ out' = [session |-> s, message |-> "Username already exists!"]
            /\ db' = db
            /\ pc'[s] = "page"
      ]_vars

\* C4 witness: a registration of an existing username has been refused
C4_Witness ==
    /\ out.message = "Username already exists!"
    /\ Cardinality(db.users) = 2

\* C5: the login form shows "Username not found!" when no user has the username,
\* "Incorrect password!" when the password does not verify, both with the session
\* logged out, and otherwise logs the session in with the user's id and admin flag
C5_LoginOutcomes ==
    [][\A s \in Sessions, u \in Usernames, p \in Passwords :
         Login(s, u, p) =>
           IF \A x \in db.users : x.username # u
           THEN out'.message = "Username not found!" /\ ~sess'[s].logged_in
           ELSE \E x \in db.users :
                  /\ x.username = u
                  /\ IF x.password_hash.pw = p
                     THEN /\ sess'[s].logged_in
                          /\ sess'[s].user_id = x.id
                          /\ sess'[s].is_admin = x.is_admin
                     ELSE out'.message = "Incorrect password!" /\ ~sess'[s].logged_in
      ]_vars

\* C6: once the store is initialized, the bootstrap account exists, is an admin
\* and has the id it was created with
C6_BootstrapAdminKept ==
    db.seq.users >= 1 =>
        \E u \in db.users : u.username = "admin" /\ u.is_admin = 1 /\ u.id = 1

\* the admin panel's writes on behalf of session s
AdminOperation(s) ==
    \/ \E row \in get_all_users(db) : AdminToggle(s, row)
    \/ \E row \in get_all_users(db) :
         AdminDelete(s, row) /\ sess[s].delete_confirmation = row.id
    \/ \E u \in Usernames, a \in BOOLEAN : AdminAddUser(s, u, "pw", a)
    \/ \E rows \in RowSeqs(UserRows) : ImportData(s, "users", rows)

\* C8: an admin panel operation runs only for a session whose user is, at that
\* moment, a user of the registry with the admin flag set
C8_AdminOnly ==
    [][\A s \in Sessions : AdminOperation(s) => is_user_admin(db, sess[s].user_id)]_vars

\* the rows init_db seeds into an empty catalog
SeededCategories ==
    {[id |-> i, name |-> default_categories[i][1], type |-> default_categories[i][2],
      is_default |-> default_categories[i][3]] : i \in 1..Len(default_categories)}

\* C9: delete_category on a row whose default flag is set answers "Cannot delete
\* default categories!" and changes nothing, so once the store is initialized
\* every seeded category is there; delete_category on a row whose flag is clear
\* removes that row and no other, and the listing that follows omits it
C9_DefaultCategoriesKept ==
    /\ [](db.seq.users >= 1 => SeededCategories \subseteq db.categories)
    /\ [][\A s \in Sessions :
            /\ \A row \in get_categories(db) :
                 (/\ DeleteCategory(s, row)
                  /\ \E c \in db.categories : c.id = row.id /\ c.is_default = 1) =>
                     /\ out' = [session |-> s, message |-> "Cannot delete default categories!"]
                     /\ pc'[s] = "page"
                     /\ db' = db
            /\ CategoryDelete(s) =>
                 /\ out' = [session |-> s, message |-> "Category deleted successfully!"]
                 /\ db'.categories \subseteq db.categories
                 /\ \A c \in db.categories \ db'.categories : c.id = loc[s].category_id
                 /\ \A row \in get_categories(db') : row.id # loc[s].category_id
         ]_vars

\* a default category's deletion was refused after an added category was deleted
C9_Witness ==
    /\ out.message = "Cannot delete default categories!"
    /\ db.seq.categories > Len(default_categories)
    /\ db.categories = SeededCategories

\* C10: no two category records share the same (name, type)
C10_CategoriesUnique ==
    \A c1, c2 \in db.categories :
        (c1.name = c2.name /\ c1.type = c2.type) => c1 = c2

\* C11: no user id has two budget records
C11_OneBudgetPerUser ==
    \A b1, b2 \in db.budgets : b1.user_id = b2.user_id => b1 = b2

\* C12: the commit of set_budget(u, a) makes get_budget(u) return a and leaves what
\* get_budget returns for every other user; get_budget returns nothing exactly when
\* u has no budget row, and what it returns for u changes only by set_budget(u, .),
\* by an import into budgets and by the deletion of u
C12_GetBudgetReturnsLastSet ==
    /\ [](\A u \in UserIds : get_budget(db, u) = <<>> <=> budget_rows(db, u) = {})
    /\ [][\A s \in Sessions :
            /\ BudgetWrite(s) =>
                 /\ get_budget(db', loc[s].user_id) = <<loc[s].amount>>
                 /\ \A u \in UserIds \ {loc[s].user_id} :
                      get_budget(db', u) = get_budget(db, u)
            /\ \A u \in UserIds :
                 get_budget(db', u) # get_budget(db, u) =>
                   \/ \E x \in Sessions : BudgetWrite(x) /\ loc[x].user_id = u
                   \/ \E x \in Sessions : DeleteUserCommit(x) /\ loc[x].user_id = u
                   \/ \E x \in Sessions, rows \in RowSeqs(BudgetRows) :
                        ImportData(x, "budgets", rows)
         ]_vars

\* a budget was set, one user's budget is 0 and the other's is not
C12_Witness ==
    /\ out.message = "Budget updated successfully!"
    /\ get_budget(db, 1) = <<0>>
    /\ get_budget(db, 2) = <<MaxAmount>>
    /\ Cardinality(db.budgets) = 2

\* C16: the user listing has one summary per user, with the number of the user's
\* transactions, the sums of its expense and income amounts, and its budget or 0
C16_UserSummaries ==
    \A u \in db.users :
        LET T == get_user_transactions(db, u.id)
            S == {r \in get_all_users(db) : r.id = u.id}
        IN  /\ Cardinality(S) = 1
            /\ \A r \in S :
                 /\ r.transaction_count = Cardinality(T)
                 /\ r.total_expenses = SumAmounts({t \in T : t.type = "expense"})
                 /\ r.total_income = SumAmounts({t \in T : t.type = "income"})
                 /\ r.budget = IF get_budget(db, u.id) = <<>> THEN {0}
                               ELSE {get_budget(db, u.id)[1]}

\* C13: no stored transaction has an amount that is not positive
C13_AmountsPositive ==
    \A t \in db.transactions : t.amount > 0

\* the stored columns of a transaction
StoredColumns(t) ==
    [id |-> t.id, user_id |-> t.user_id, type |-> t.type, amount |-> t.amount,
     date |-> t.date]

\* the transactions that a call of get_transactions is to return, by calendar date
InRange(d, user_id, start_date, end_date, all_users) ==
    {t \in d.transactions :
        /\ IF all_users THEN \E u \in d.users : u.id = t.user_id ELSE t.user_id = user_id
        /\ start_date # <<>> =>
             /\ DateLeq(to_datetime(start_date), to_datetime(t.date))
             /\ DateLeq(to_datetime(t.date), to_datetime(end_date))}

\* C14: get_transactions(u, start, end) returns the transactions of u dated from start
\* to end, both days included, each once and by non-increasing date, and the empty
\* result when there is none; with all_users the same range is applied to the
\* transactions of every user
C14_GetTransactionsInRange ==
    (out.message = "get_transactions" /\ (out.args.start_date = <<>> <=> out.args.end_date = <<>>)) =>
        LET df == out.result
            expected == InRange(db, out.args.user_id, out.args.start_date,
                                out.args.end_date, out.args.all_users)
        IN  /\ Len(df) = Cardinality(expected)
            /\ {StoredColumns(df[i]) : i \in DOMAIN df} = expected
            /\ \A i, j \in DOMAIN df :
                 i < j => DateLeq(to_datetime(df[j].date), to_datetime(df[i].date))
            /\ out.args.all_users =>
                 \A i \in DOMAIN df :
                    \E x \in db.users : /\ x.id = df[i].user_id
                                        /\ x.username = df[i].username

\* a call returned the two transactions dated on the first and on the last day of its
\* range, the later first
C14_Witness ==
    /\ out.message = "get_transactions"
    /\ ~out.args.all_users
    /\ Len(out.result) = 2
    /\ out.result[1].date = out.args.end_date
    /\ out.result[2].date = out.args.start_date
    /\ out.args.start_date # out.args.end_date

\* C15: the dashboard shows no budget status exactly when the user has no budget; with
\* a budget b, 0 included, it shows the excess total - b when the total of the
\* expenses is above b, and the remainder b - total otherwise
C15_BudgetStatus ==
    out.message = "Dashboard" =>
        LET budget == get_budget(db, out.args.user_id)
            total == out.summary.total_expenses
        IN  IF budget = <<>>
            THEN out.budget_status.kind = "none"
            ELSE IF total > budget[1]
            THEN out.budget_status = [kind |-> "exceeded", amount |-> total - budget[1]]
            ELSE out.budget_status = [kind |-> "remaining", amount |-> budget[1] - total]

\* the transactions of the reports page's user within the page's two dates
ReportSlice ==
    InRange(db, out.args.user_id, strftime(out.args.start_date),
            strftime(out.args.end_date), FALSE)

ReportShown ==
    out.message \in {"Reports & Analytics",
                     "No transactions found for the selected date range."}

\* C17: the summary over a user's transactions has the sum of the income amounts, the
\* sum of the expense amounts and their difference as balance; all three are zero when
\* there is no transaction
C17_Summarize ==
    ReportShown =>
        /\ out.summary.total_income = SumAmounts({t \in ReportSlice : t.type = "income"})
        /\ out.summary.total_expenses = SumAmounts({t \in ReportSlice : t.type = "expense"})
        /\ out.summary.balance = out.summary.total_income - out.summary.total_expenses
        /\ ReportSlice = {} =>
             out.summary = [total_income |-> 0, total_expenses |-> 0, balance |-> 0]

\* a summary over one income and one expense of different amounts
C17_Witness ==
    /\ out.message = "Reports & Analytics"
    /\ Len(out.transactions_df) = 2
    /\ out.summary = [total_income |-> 0, total_expenses |-> MaxAmount,
                      balance |-> 0 - MaxAmount]
    /\ \E t \in ReportSlice : t.type = "income"

\* the calendar month of a stored date, and the month a 'YYYY-MM' text names
CalendarMonth(text) == <<to_datetime(text).year, to_datetime(text).month>>

MonthLess(a, b) == a[1] < b[1] \/ (a[1] = b[1] /\ a[2] < b[2])

\* C18: the monthly trend of a non-empty slice has one entry per month that occurs in
\* the slice, under its 'YYYY-MM' text, in strictly ascending order of the months, with
\* the sums of the income and of the expense amounts of that month, 0 for a kind
\* without a transaction in the month
C18_MonthlyTrend ==
    out.message = "Reports & Analytics" =>
        LET trend == out.pivot_data
            months == {CalendarMonth(t.date) : t \in ReportSlice}
            of(m, type) == {t \in ReportSlice : CalendarMonth(t.date) = m /\ t.type = type}
        IN  /\ Len(trend) = Cardinality(months)
            /\ \A i \in DOMAIN trend :
                 /\ Len(trend[i].month) = 7
                 /\ trend[i].month[5] = 45
                 /\ CalendarMonth(trend[i].month \o <<45, 48, 49>>) \in months
                 /\ trend[i].income =
                      SumAmounts(of(CalendarMonth(trend[i].month \o <<45, 48, 49>>), "income"))
                 /\ trend[i].expense =
                      SumAmounts(of(CalendarMonth(trend[i].month \o <<45, 48, 49>>), "expense"))
            /\ \A i, j \in DOMAIN trend :
                 i < j => MonthLess(CalendarMonth(trend[i].month \o <<45, 48, 49>>),
                                    CalendarMonth(trend[j].month \o <<45, 48, 49>>))

\* a trend of two months, the first with an expense only, the second with an income only
C18_Witness ==
    /\ out.message = "Reports & Analytics"
    /\ Len(out.pivot_data) = 2
    /\ out.pivot_data[1].income = 0 /\ out.pivot_data[1].expense = MaxAmount
    /\ out.pivot_data[2].income = MaxAmount /\ out.pivot_data[2].expense = 0

\* C19: the four tables of a backup are those of one state of the store; in
\* particular, while no state of the store has a transaction without its user, no
\* backup has one
C19_BackupIsSnapshot ==
    out.message = "backup_database" =>
        \A t \in out.backup_files.transactions :
            \E u \in out.backup_files.users : u.id = t.user_id

Tables == {"users", "transactions", "budgets", "categories"}

\* an import step of a file into a table does all of it or nothing
AllOrNothing(table, rows) ==
    ImportData(1, table, rows) =>
        \/ /\ out'.message = "Successfully imported data"
           /\ db[table] \subseteq db'[table]
           /\ Cardinality(db'[table] \ db[table]) = Len(rows)
           /\ \A i \in DOMAIN rows :
                \E r \in db'[table] \ db[table] :
                    /\ [r EXCEPT !.id = 0] = [rows[i] EXCEPT !.id = 0]
                    /\ rows[i].id # 0 => r.id = rows[i].id
           /\ \A other \in Tables \ {table} : db'[other] = db[other]
        \/ /\ out'.message = "Error importing data"
           /\ \A any \in Tables : db'[any] = db[any]

\* C20: an import either appends every row of the file to the table, changes no row
\* that was there and no other table, and reports success, or reports the error and
\* leaves the four tables as they were
C20_ImportAllOrNothing ==
    [][/\ \A rows \in Files(FileUserRows) : AllOrNothing("users", rows)
       /\ \A rows \in Files(FileTransactionRows) : AllOrNothing("transactions", rows)
      ]_vars

\* an import failed after imports had added a user and a transaction
C20_Witness ==
    /\ out.message = "Error importing data"
    /\ Cardinality(db.users) = 2
    /\ db.transactions # {}

\* C21: a delete of a category whose id is not in the store answers with a failure,
\* not with success, and leaves every table as it was
C21_DeleteNotFound ==
    [][\A s \in Sessions :
         (/\ CategoryDelete(s)
          /\ \A c \in db.categories : c.id # loc[s].category_id) =>
             /\ out'.message # "Category deleted successfully!"
             /\ db' = db
      ]_vars

\* the store has been initialized: init_db committed once
Initialized == db.seq.users >= 1

\* C22: the first init_db leaves exactly the seeded list in the catalog, each entry
\* flagged default; every later init_db, whatever categories were added, deleted
\* or imported in between, inserts no category and changes none
C22_SeedingIdempotent ==
    [][\A s \in Sessions :
         /\ (InitAdmin(s) /\ ~Initialized /\ db' # db) =>
                /\ db'.categories = SeededCategories
                /\ \A c \in db'.categories : c.is_default = 1
         /\ ((Main(s) \/ InitAdmin(s)) /\ Initialized) =>
                /\ db'.categories = db.categories
                /\ db'.seq.categories = db.seq.categories
      ]_vars

\* init_db has just run again on a catalog that holds one row more than the seeded
\* list, after at least two ids beyond the seeded ones were given out
C22_Witness ==
    /\ Initialized
    /\ out = NoOut
    /\ \A s \in Sessions : pc[s] = "page"
    /\ db.seq.categories > Len(default_categories) + 1
    /\ Cardinality(db.categories) = Len(default_categories) + 1

\* the transactions of the dashboard's user dated within the calendar month of today
MonthSlice ==
    {t \in db.transactions :
        /\ t.user_id = out.args.user_id
        /\ CalendarMonth(t.date) = <<out.args.today.year, out.args.today.month>>}

\* C23: the dashboard's total income, total expenses, balance and budget comparison are
\* those of the user's transactions dated from the first through the last day of the
\* current calendar month; a transaction dated in another month is not counted
C23_DashboardMonth ==
    out.message = "Dashboard" =>
        LET total_income == SumAmounts({t \in MonthSlice : t.type = "income"})
            total_expenses == SumAmounts({t \in MonthSlice : t.type = "expense"})
        IN  /\ out.summary = [total_income |-> total_income,
                              total_expenses |-> total_expenses,
                              balance |-> total_income - total_expenses]
            /\ out.budget_status =
                 budget_status(get_budget(db, out.args.user_id), total_expenses)

====
